---------------------------- MODULE Spec2Model ----------------------------
(***************************************************************************)
(* Model of the SpaceMouse HID bridge, priv/platform/macos/hid_reader.c.   *)
(*                                                                         *)
(* The process is single threaded.  After initialize_hid_system() it       *)
(* prints STATUS:ready and loops forever over two steps: a slice of the    *)
(* CoreFoundation run loop, in which IOKit invokes the three registered    *)
(* callbacks, and check_stdin_input().  Standard output is the sequence    *)
(* out of text lines; the reports handed to IOHIDDeviceSetReport are the   *)
(* sequence writes; standard input is the kernel pipe fd_in plus the       *)
(* stdio buffer stdin_buf that fgets reads through.                        *)
(***************************************************************************)
EXTENDS Integers, Sequences, FiniteSets, TLC

VARIABLES pc, attached, device_connected, current_device, led_state,
          out, writes, fd_in, stdin_buf, buffer, midline, events, reports, exit_status, ev

vars == <<pc, attached, device_connected, current_device, led_state,
          out, writes, fd_in, stdin_buf, buffer, midline, events, reports, exit_status, ev>>

-----------------------------------------------------------------------------
(* Bounds of the model.                                                    *)

\* events the environment produces in one run of the bridge: presence
\* notifications, input reports and writes of the parent on the inbound pipe
MaxEvents == 4
\* input reports of the wide set delivered in one run
MaxWideReports == 2

-----------------------------------------------------------------------------
(* Program constants.                                                      *)

USAGE_X == 48
USAGE_Y == 49
USAGE_Z == 50
USAGE_RX == 51
USAGE_RY == 52
USAGE_RZ == 53
\* usage pages tested by input_callback
PAGE_GENERIC_DESKTOP == 1
PAGE_BUTTON == 9
\* char buffer[256] of check_stdin_input
BUFFER_SIZE == 256
\* for (method = 1; method <= 4; method++)
LED_METHODS == 4
\* the null IOHIDDeviceRef
NULL == 0
\* IOReturn codes: success, and the generic error try_led_method starts from
\* (0xe00002bc as the 32-bit int that IOReturn is)
kIOReturnSuccess == 0
kIOReturnError == -536870212

\* the IOHIDDeviceRefs of the vendor-matching devices that can be plugged in
Devices == {1, 2}
IOReturns == {kIOReturnSuccess, kIOReturnError}
\* what the device answers to each of the four LED encodings
Transports == [1..LED_METHODS -> IOReturns]

-----------------------------------------------------------------------------
(* Text.  Inbound bytes are sequences of one-character strings; printed    *)
(* lines are strings (without the trailing newline every printf adds).     *)

NL == "\n"

RECURSIVE Str(_)
\* printf("%s"): the characters of a C string, joined half by half
Str(s) ==
    IF Len(s) = 0 THEN ""
    ELSE IF Len(s) = 1 THEN s[1]
    ELSE LET h == Len(s) \div 2
         IN  Str(SubSeq(s, 1, h)) \o Str(SubSeq(s, h + 1, Len(s)))

\* printf("0x%08x") of an IOReturn
Hex8(r) == IF r = kIOReturnSuccess THEN "0x00000000" ELSE "0xe00002bc"

\* on ? "on" : "off"
OnOff(on) == IF on THEN "on" ELSE "off"

\* strncmp(line, prefix, n) == 0 for a literal prefix of n characters
StrNEq(line, prefix) ==
    /\ Len(line) >= Len(prefix)
    /\ SubSeq(line, 1, Len(prefix)) = prefix

\* strchr: position of the first c in s at or after position i, 0 if none
IndexOf(s, c, i) ==
    LET hits == { j \in i..Len(s) : s[j] = c }
    IN  IF hits = {} THEN 0
        ELSE CHOOSE j \in hits : \A k \in hits : j <= k

Min(a, b) == IF a <= b THEN a ELSE b

-----------------------------------------------------------------------------
(* History.  ev is the last step of the program: which handler ran, its     *)
(* input, and the program state it started from.  midline holds when the   *)
(* bytes fgets has returned so far end inside an inbound line (its last    *)
(* return carried no newline).  No handler reads ev or midline.            *)

NoReport == <<0, 0, 0>>
\* a device that accepts every encoding
AllAccept == [m \in 1..LED_METHODS |-> kIOReturnSuccess]

\* the first method a device answering res accepts, LED_METHODS + 1 if it accepts none
FirstAccepted(res) ==
    LET ok == { m \in 1..LED_METHODS : res[m] = kIOReturnSuccess }
    IN  IF ok = {} THEN LED_METHODS + 1
        ELSE CHOOSE m \in ok : \A k \in ok : m <= k

\* accepts: for a command that reached the device, the first method it accepted;
\* whole: the text handed to handle_stdin_command is one entire inbound line
Ev(op, dev, report, line, accepts) ==
    [op |-> op, dev |-> dev, report |-> report, line |-> line, accepts |-> accepts,
     whole |-> FALSE,
     connected |-> device_connected, device |-> current_device,
     led |-> led_state, nout |-> Len(out), nwrites |-> Len(writes)]

\* the lines the last handler printed, and the reports it sent to the device
Emitted == SubSeq(out, ev.nout + 1, Len(out))
Written == SubSeq(writes, ev.nwrites + 1, Len(writes))

-----------------------------------------------------------------------------
(* Start-up: main() up to the loop.                                        *)

Init ==
    /\ pc = "init"
    /\ attached = {}
    /\ device_connected = FALSE
    /\ current_device = NULL
    /\ led_state = FALSE
    /\ out = <<>>
    /\ writes = <<>>
    /\ fd_in = <<>>
    /\ stdin_buf = <<>>
    /\ buffer = <<>>
    /\ midline = FALSE
    /\ events = 0
    /\ reports = 0
    /\ exit_status = -1
    /\ ev = Ev("start", NULL, NoReport, <<>>, 0)

\* initialize_hid_system() returned true: STATUS:ready, enter the loop
MainReady ==
    /\ pc = "init"
    /\ pc' = "slice"
    /\ out' = Append(out, "STATUS:ready")
    /\ ev' = Ev("ready", NULL, NoReport, <<>>, 0)
    /\ UNCHANGED <<attached, device_connected, current_device, led_state, writes,
                   fd_in, stdin_buf, buffer, midline, events, reports, exit_status>>

\* main() printing STATUS:ready before it looks at the result of initialize_hid_system()
MainInitFailedAfterReady ==
    /\ pc = "init"
    /\ pc' = "exited"
    /\ exit_status' = 1
    /\ out' = Append(out, "STATUS:ready")
    /\ ev' = Ev("exit", NULL, NoReport, <<>>, 0)
    /\ UNCHANGED <<attached, device_connected, current_device, led_state, writes,
                   fd_in, stdin_buf, buffer, midline, events, reports>>

\* initialize_hid_system() returned false (manager not created or not opened):
\* return 1, nothing printed on stdout
MainInitFailed ==
    /\ pc = "init"
    /\ pc' = "exited"
    /\ exit_status' = 1
    /\ ev' = Ev("exit", NULL, NoReport, <<>>, 0)
    /\ UNCHANGED <<attached, device_connected, current_device, led_state, out, writes,
                   fd_in, stdin_buf, buffer, midline, events, reports>>

-----------------------------------------------------------------------------
(* The three IOKit callbacks.  They run only inside CFRunLoopRunInMode.    *)

\* device_matching_callback without its test of device_connected
device_matching_unguarded(device) ==
    /\ device_connected' = TRUE
    /\ current_device' = device
    /\ out' = Append(out, "STATUS:device_connected")

\* device_matching_callback(device)
device_matching_callback(device) ==
    IF ~device_connected
    THEN /\ device_connected' = TRUE
         /\ current_device' = device
         /\ out' = Append(out, "STATUS:device_connected")
    ELSE UNCHANGED <<device_connected, current_device, out>>

\* device_removal_callback without its test of device_connected
device_removal_unguarded(device) ==
    /\ device_connected' = FALSE
    /\ current_device' = NULL
    /\ out' = Append(out, "STATUS:device_disconnected")

\* device_removal_callback leaving current_device as it is
device_removal_keeps_handle(device) ==
    IF device_connected
    THEN /\ device_connected' = FALSE
         /\ current_device' = current_device
         /\ out' = Append(out, "STATUS:device_disconnected")
    ELSE UNCHANGED <<device_connected, current_device, out>>

\* device_removal_callback(device): the device argument is unused
device_removal_callback(device) ==
    IF device_connected
    THEN /\ device_connected' = FALSE
         /\ current_device' = NULL
         /\ out' = Append(out, "STATUS:device_disconnected")
    ELSE UNCHANGED <<device_connected, current_device, out>>

\* the switch of input_callback with the labels of USAGE_RX and USAGE_RY exchanged
AxisNameSwapped(usage) ==
    CASE usage = USAGE_X -> "x"
      [] usage = USAGE_Y -> "y"
      [] usage = USAGE_Z -> "z"
      [] usage = USAGE_RX -> "ry"
      [] usage = USAGE_RY -> "rx"
      [] usage = USAGE_RZ -> "rz"
      [] OTHER -> ""

\* the switch of input_callback: the axis name of a Generic Desktop usage, "" for default
AxisName(usage) ==
    CASE usage = USAGE_X -> "x"
      [] usage = USAGE_Y -> "y"
      [] usage = USAGE_Z -> "z"
      [] usage = USAGE_RX -> "rx"
      [] usage = USAGE_RY -> "ry"
      [] usage = USAGE_RZ -> "rz"
      [] OTHER -> ""

\* input_callback taking every non-zero button value for a press
ReportLinesNonZero(usage_page, usage, int_value) ==
    IF usage_page = PAGE_GENERIC_DESKTOP
    THEN IF AxisName(usage) = ""
         THEN <<>>
         ELSE <<"MOTION:" \o AxisName(usage) \o "=" \o ToString(int_value)>>
    ELSE IF usage_page = PAGE_BUTTON
    THEN <<"BUTTON:id=" \o ToString(usage) \o ",state="
             \o (IF int_value # 0 THEN "pressed" ELSE "released")>>
    ELSE <<>>

\* the lines input_callback prints for a value of (usage_page, usage, int_value)
ReportLines(usage_page, usage, int_value) ==
    IF usage_page = PAGE_GENERIC_DESKTOP
    THEN IF AxisName(usage) = ""
         THEN <<>>
         ELSE <<"MOTION:" \o AxisName(usage) \o "=" \o ToString(int_value)>>
    ELSE IF usage_page = PAGE_BUTTON
    THEN <<"BUTTON:id=" \o ToString(usage) \o ",state="
             \o (IF int_value > 0 THEN "pressed" ELSE "released")>>
    ELSE <<>>

\* input_callback(value)
input_callback(usage_page, usage, int_value) ==
    out' = out \o ReportLines(usage_page, usage, int_value)

\* a vendor-matching device is plugged in: IOKit reports it
DeviceMatching(d) ==
    /\ pc = "slice"
    /\ d \notin attached
    /\ events < MaxEvents
    /\ events' = events + 1
    /\ attached' = attached \cup {d}
    /\ device_matching_callback(d)
    /\ ev' = Ev("matching", d, NoReport, <<>>, 0)
    /\ UNCHANGED <<pc, led_state, writes, fd_in, stdin_buf, buffer, midline, reports,
                   exit_status>>

\* an attached device is unplugged: IOKit reports it
DeviceRemoval(d) ==
    /\ pc = "slice"
    /\ d \in attached
    /\ events < MaxEvents
    /\ events' = events + 1
    /\ attached' = attached \ {d}
    /\ device_removal_callback(d)
    /\ ev' = Ev("removal", d, NoReport, <<>>, 0)
    /\ UNCHANGED <<pc, led_state, writes, fd_in, stdin_buf, buffer, midline, reports,
                   exit_status>>

\* input reports the attached devices deliver in the full bridge
Reports == { <<PAGE_GENERIC_DESKTOP, USAGE_X, 120>>,
             <<PAGE_BUTTON, 1, 0>> }

\* an attached device delivers an input value
InputValue(r) ==
    /\ pc = "slice"
    /\ attached # {}
    /\ events < MaxEvents
    /\ events' = events + 1
    /\ reports' = reports + 1
    /\ input_callback(r[1], r[2], r[3])
    /\ ev' = Ev("input", NULL, r, <<>>, 0)
    /\ UNCHANGED <<pc, attached, device_connected, current_device, led_state, writes,
                   fd_in, stdin_buf, buffer, midline, exit_status>>

\* input values over the usage tables: every Generic Desktop usage around the six
\* axes, button usages, and other usage pages, with negative, zero and positive values
WideReports ==
    ({PAGE_GENERIC_DESKTOP} \X (47..54) \X {-7, 0, 120})
      \cup ({PAGE_BUTTON} \X {1, 2, 48} \X {-1, 0, 1})
      \cup ({0, 8, 12} \X {1, 48} \X {5})

\* as InputValue, over WideReports
InputValueWide(r) ==
    /\ reports < MaxWideReports
    /\ InputValue(r)

\* CFRunLoopRunInMode(kCFRunLoopDefaultMode, 0.1, false) returns
SliceEnd ==
    /\ pc = "slice"
    /\ pc' = "stdin"
    /\ ev' = Ev("slice_end", NULL, NoReport, <<>>, 0)
    /\ UNCHANGED <<attached, device_connected, current_device, led_state, out, writes,
                   fd_in, stdin_buf, buffer, midline, events, reports, exit_status>>

-----------------------------------------------------------------------------
(* The LED controller.                                                     *)

\* the report try_led_method hands to IOHIDDeviceSetReport(device, type, id, data, len)
LedReport(device, method, on) ==
    LET flag == IF on THEN 1 ELSE 0
    IN  CASE method = 1 ->
               [device |-> device, method |-> 1, type |-> "output", id |-> 4,
                data |-> <<4, flag>>]
          [] method = 2 ->
               [device |-> device, method |-> 2, type |-> "feature", id |-> 4,
                data |-> <<4, flag>>]
          [] method = 3 ->
               [device |-> device, method |-> 3, type |-> "feature", id |-> 7,
                data |-> <<7, flag>>]
          [] method = 4 ->
               [device |-> device, method |-> 4, type |-> "feature", id |-> 4,
                data |-> <<4, flag, 0>>]

\* try_led_method(device, method, on) against a device answering res:
\* the report sent, the diagnostic printed, and the boolean returned
try_led_method(device, method, on, res) ==
    [reports |-> <<LedReport(device, method, on)>>,
     lines   |-> <<"STATUS:led_method=" \o ToString(method) \o ",result="
                     \o Hex8(res[method])>>,
     ok      |-> res[method] = kIOReturnSuccess]

RECURSIVE LedLoop(_, _, _)
\* the for loop of send_led_command from the given method on
LedLoop(method, on, res) ==
    IF method > LED_METHODS
    THEN [reports |-> <<>>,
          lines   |-> <<"STATUS:led_failed=all_methods_failed">>,
          led     |-> led_state,
          ok      |-> FALSE]
    ELSE LET t == try_led_method(current_device, method, on, res)
         IN  IF t.ok
             THEN [reports |-> t.reports,
                   lines   |-> t.lines \o <<"LED:state=" \o OnOff(on) \o ",method="
                                              \o ToString(method)>>,
                   led     |-> on,
                   ok      |-> TRUE]
             ELSE LET rest == LedLoop(method + 1, on, res)
                  IN  [reports |-> t.reports \o rest.reports,
                       lines   |-> t.lines \o rest.lines,
                       led     |-> rest.led,
                       ok      |-> rest.ok]

\* send_led_command with the loop starting at method 2
send_led_command_from2(on, res) ==
    IF current_device = NULL \/ ~device_connected
    THEN [reports |-> <<>>,
          lines   |-> <<"STATUS:led_failed=device_not_available">>,
          led     |-> led_state,
          ok      |-> FALSE]
    ELSE LET loop == LedLoop(2, on, res)
         IN  [reports |-> loop.reports,
              lines   |-> <<"STATUS:led_attempting=" \o OnOff(on)>> \o loop.lines,
              led     |-> loop.led,
              ok      |-> loop.ok]

\* send_led_command assigning led_state before the loop instead of on success
send_led_command_early_state(on, res) ==
    IF current_device = NULL \/ ~device_connected
    THEN [reports |-> <<>>,
          lines   |-> <<"STATUS:led_failed=device_not_available">>,
          led     |-> led_state,
          ok      |-> FALSE]
    ELSE LET loop == LedLoop(1, on, res)
         IN  [reports |-> loop.reports,
              lines   |-> <<"STATUS:led_attempting=" \o OnOff(on)>> \o loop.lines,
              led     |-> on,
              ok      |-> loop.ok]

\* send_led_command printing led_attempting before the availability test
send_led_command_early_attempting(on, res) ==
    IF current_device = NULL \/ ~device_connected
    THEN [reports |-> <<>>,
          lines   |-> <<"STATUS:led_attempting=" \o OnOff(on),
                        "STATUS:led_failed=device_not_available">>,
          led     |-> led_state,
          ok      |-> FALSE]
    ELSE LET loop == LedLoop(1, on, res)
         IN  [reports |-> loop.reports,
              lines   |-> <<"STATUS:led_attempting=" \o OnOff(on)>> \o loop.lines,
              led     |-> loop.led,
              ok      |-> loop.ok]

\* send_led_command without the availability test
send_led_command_unguarded(on, res) ==
    LET loop == LedLoop(1, on, res)
    IN  [reports |-> loop.reports,
         lines   |-> <<"STATUS:led_attempting=" \o OnOff(on)>> \o loop.lines,
         led     |-> loop.led,
         ok      |-> loop.ok]

\* send_led_command clearing led_state when the device is not available
send_led_command_reset_state(on, res) ==
    IF current_device = NULL \/ ~device_connected
    THEN [reports |-> <<>>,
          lines   |-> <<"STATUS:led_failed=device_not_available">>,
          led     |-> FALSE,
          ok      |-> FALSE]
    ELSE LET loop == LedLoop(1, on, res)
         IN  [reports |-> loop.reports,
              lines   |-> <<"STATUS:led_attempting=" \o OnOff(on)>> \o loop.lines,
              led     |-> loop.led,
              ok      |-> loop.ok]

\* send_led_command starting the loop at the method of the last report it sent
send_led_command_remembering(on, res) ==
    IF current_device = NULL \/ ~device_connected
    THEN [reports |-> <<>>,
          lines   |-> <<"STATUS:led_failed=device_not_available">>,
          led     |-> led_state,
          ok      |-> FALSE]
    ELSE LET first == IF writes = <<>> THEN 1 ELSE writes[Len(writes)].method
             loop  == LedLoop(first, on, res)
         IN  [reports |-> loop.reports,
              lines   |-> <<"STATUS:led_attempting=" \o OnOff(on)>> \o loop.lines,
              led     |-> loop.led,
              ok      |-> loop.ok]

\* send_led_command printing led_attempting=on whatever state is asked for
send_led_command_attempting_on(on, res) ==
    IF current_device = NULL \/ ~device_connected
    THEN [reports |-> <<>>,
          lines   |-> <<"STATUS:led_failed=device_not_available">>,
          led     |-> led_state,
          ok      |-> FALSE]
    ELSE LET loop == LedLoop(1, on, res)
         IN  [reports |-> loop.reports,
              lines   |-> <<"STATUS:led_attempting=on">> \o loop.lines,
              led     |-> loop.led,
              ok      |-> loop.ok]

\* send_led_command storing true in led_state on every success
send_led_command_state_true(on, res) ==
    IF current_device = NULL \/ ~device_connected
    THEN [reports |-> <<>>,
          lines   |-> <<"STATUS:led_failed=device_not_available">>,
          led     |-> led_state,
          ok      |-> FALSE]
    ELSE LET loop == LedLoop(1, on, res)
         IN  [reports |-> loop.reports,
              lines   |-> <<"STATUS:led_attempting=" \o OnOff(on)>> \o loop.lines,
              led     |-> IF loop.ok THEN TRUE ELSE led_state,
              ok      |-> loop.ok]

\* send_led_command(on): reports sent, lines printed, led_state afterwards, return value
send_led_command(on, res) ==
    IF current_device = NULL \/ ~device_connected
    THEN [reports |-> <<>>,
          lines   |-> <<"STATUS:led_failed=device_not_available">>,
          led     |-> led_state,
          ok      |-> FALSE]
    ELSE LET loop == LedLoop(1, on, res)
         IN  [reports |-> loop.reports,
              lines   |-> <<"STATUS:led_attempting=" \o OnOff(on)>> \o loop.lines,
              led     |-> loop.led,
              ok      |-> loop.ok]

-----------------------------------------------------------------------------
(* The command parser.                                                     *)

LED_PREFIX == <<"L", "E", "D", ":">>
CMD_ON == <<"o", "n">>
CMD_OFF == <<"o", "f", "f">>

\* handle_stdin_command(line)
handle_stdin_command(line, res) ==
    IF StrNEq(line, LED_PREFIX)
    THEN LET cmd == SubSeq(line, Len(LED_PREFIX) + 1, Len(line))
         IN  IF cmd = CMD_ON THEN send_led_command(TRUE, res)
             ELSE IF cmd = CMD_OFF THEN send_led_command(FALSE, res)
             ELSE [reports |-> <<>>,
                   lines   |-> <<"STATUS:unknown_led_command=" \o Str(cmd)>>,
                   led     |-> led_state,
                   ok      |-> FALSE]
    ELSE [reports |-> <<>>,
          lines   |-> <<"STATUS:unknown_command=" \o Str(line)>>,
          led     |-> led_state,
          ok      |-> FALSE]

\* whether handle_stdin_command(line) reaches IOHIDDeviceSetReport
UsesTransport(line) ==
    /\ line \in {LED_PREFIX \o CMD_ON, LED_PREFIX \o CMD_OFF}
    /\ current_device # NULL
    /\ device_connected

-----------------------------------------------------------------------------
(* Line framing: fgets(buffer, sizeof(buffer), stdin) on a pipe that the   *)
(* parent keeps open for the life of the bridge.                           *)

\* copy characters of src after acc until a newline has been copied or the
\* buffer holds BUFFER_SIZE - 1 characters
FgetsTake(acc, src) ==
    LET room == BUFFER_SIZE - 1 - Len(acc)
        nl   == IndexOf(src, NL, 1)
        full == nl # 0 /\ nl <= room
        n    == IF full THEN nl ELSE Min(room, Len(src))
    IN  [buf  |-> acc \o SubSeq(src, 1, n),
         rest |-> SubSeq(src, n + 1, Len(src)),
         done |-> full \/ Len(acc) + n = BUFFER_SIZE - 1]

\* fgets with acc already copied: it drains the stdio buffer, refills it from the
\* pipe with one read(2) (which takes what the pipe holds), and needs a further
\* read(2), which blocks, when neither gave a newline nor filled the buffer
Fgets(acc, sbuf, fd) ==
    LET t1 == FgetsTake(acc, sbuf)
        t2 == FgetsTake(t1.buf, fd)
    IN  IF t1.done
        THEN [status |-> "line", buf |-> t1.buf, stdin_buf |-> t1.rest, fd_in |-> fd]
        ELSE IF t2.done
        THEN [status |-> "line", buf |-> t2.buf, stdin_buf |-> t2.rest, fd_in |-> <<>>]
        ELSE [status |-> "block", buf |-> t2.buf, stdin_buf |-> <<>>, fd_in |-> <<>>]

\* char *newline = strchr(buffer, '\n'); if (newline) *newline = '\0';
StripNewline(buf) ==
    LET nl == IndexOf(buf, NL, 1)
    IN  IF nl # 0 THEN SubSeq(buf, 1, nl - 1) ELSE buf

\* what check_stdin_input does once fgets has come to the result f; res is what
\* the device would answer (one res stands for all when the device is not asked)
AfterFgets(f, res) ==
    /\ fd_in' = f.fd_in
    /\ stdin_buf' = f.stdin_buf
    /\ IF f.status = "block"
       THEN /\ res = AllAccept
            /\ pc' = "fgets"
            /\ buffer' = f.buf
            /\ ev' = Ev("fgets_block", NULL, NoReport, <<>>, 0)
            /\ UNCHANGED <<out, writes, led_state, midline>>
       ELSE LET line == StripNewline(f.buf)
                h    == handle_stdin_command(line, res)
            IN  /\ UsesTransport(line) \/ res = AllAccept
                /\ pc' = "slice"
                /\ buffer' = <<>>
                /\ out' = out \o h.lines
                /\ writes' = writes \o h.reports
                /\ led_state' = h.led
                /\ midline' = (IndexOf(f.buf, NL, 1) = 0)
                /\ ev' = [Ev("command", NULL, NoReport, line,
                              IF UsesTransport(line) THEN FirstAccepted(res) ELSE 0)
                            EXCEPT !.whole = ~midline /\ IndexOf(f.buf, NL, 1) # 0]

\* check_stdin_input(): select() with a zero timeout, then fgets if readable
check_stdin_input(res) ==
    /\ pc = "stdin"
    /\ IF fd_in = <<>>
       THEN /\ res = AllAccept
            /\ pc' = "slice"
            /\ ev' = Ev("select_empty", NULL, NoReport, <<>>, 0)
            /\ UNCHANGED <<out, writes, led_state, fd_in, stdin_buf, buffer, midline>>
       ELSE AfterFgets(Fgets(<<>>, stdin_buf, fd_in), res)
    /\ UNCHANGED <<attached, device_connected, current_device, events, reports,
                   exit_status>>

\* the read(2) that fgets is blocked in returns: more bytes have arrived
FgetsResume(res) ==
    /\ pc = "fgets"
    /\ fd_in # <<>>
    /\ AfterFgets(Fgets(buffer, stdin_buf, fd_in), res)
    /\ UNCHANGED <<attached, device_connected, current_device, events, reports,
                   exit_status>>

-----------------------------------------------------------------------------
(* The parent process at the other end of the inbound pipe.                *)

LINE_ON == LED_PREFIX \o CMD_ON
LINE_OFF == LED_PREFIX \o CMD_OFF
LINE_UPPER == LED_PREFIX \o <<"O", "N">>
LINE_FOO == <<"f", "o", "o">>
\* a line of BUFFER_SIZE - 1 filler characters followed by LED:on
LINE_LONG == [i \in 1..(BUFFER_SIZE - 1) |-> "x"] \o LINE_ON

Lines == {LINE_ON, LINE_OFF, LINE_UPPER, LINE_FOO, LINE_LONG}

\* what one write(2) of the parent may carry: a terminated line or the beginning
\* of a line (two writes before one stdin check put two lines in the pipe)
Chunks == { l \o <<NL>> : l \in Lines } \cup { LED_PREFIX }

\* The parent writes to the pipe.  No callback reads the pipe, so bytes written
\* during a slice are found by the next select() exactly as bytes written right
\* before it: the write is taken at the stdin check, or while fgets is blocked.
ParentWrite(chunk) ==
    /\ pc \in {"stdin", "fgets"}
    /\ events < MaxEvents
    /\ events' = events + 1
    /\ fd_in' = fd_in \o chunk
    /\ UNCHANGED <<pc, attached, device_connected, current_device, led_state, out,
                   writes, stdin_buf, buffer, midline, reports, exit_status, ev>>

-----------------------------------------------------------------------------

Next ==
    \/ MainReady
    \/ MainInitFailed
    \/ \E d \in Devices : DeviceMatching(d)
    \/ \E d \in Devices : DeviceRemoval(d)
    \/ \E r \in Reports : InputValue(r)
    \/ SliceEnd
    \/ \E res \in Transports : check_stdin_input(res)
    \/ \E res \in Transports : FgetsResume(res)
    \/ \E chunk \in Chunks : ParentWrite(chunk)

Spec == Init /\ [][Next]_vars

\* The device side alone, fed with the wide set of input reports.
NextReports ==
    \/ MainReady
    \/ MainInitFailed
    \/ \E d \in Devices : DeviceMatching(d)
    \/ \E d \in Devices : DeviceRemoval(d)
    \/ \E r \in WideReports : InputValueWide(r)
    \/ SliceEnd
    \/ \E res \in Transports : check_stdin_input(res)

SpecReports == Init /\ [][NextReports]_vars

-----------------------------------------------------------------------------
(* Vocabulary of the properties.                                           *)

CONNECTED_LINE == "STATUS:device_connected"
DISCONNECTED_LINE == "STATUS:device_disconnected"
PresenceLines == {CONNECTED_LINE, DISCONNECTED_LINE}

IsPresenceLine(l) == l \in PresenceLines

\* the presence lines of the output, in order
PresenceOut == SelectSeq(out, IsPresenceLine)

\* LED:state= lines, whatever method index they carry
Confirmations ==
    { "LED:state=" \o s \o ",method=" \o ToString(m) : s \in {"on", "off"}, m \in 0..9 }

IsConfirmation(l) == l \in Confirmations

\* how often the line l occurs in the sequence of lines q
Count(q, l) == Cardinality({ i \in DOMAIN q : q[i] = l })

\* the last step dispatched the line LED:on or LED:off
LedCommand == ev.op = "command" /\ ev.line \in {LINE_ON, LINE_OFF}
\* the state that command asked for
Requested == IF ev.line = LINE_ON THEN "on" ELSE "off"
\* the device was Connected when the last step began
WasConnected == ev.connected /\ ev.device # NULL

\* the last step left presence, handle and LED state as they were
ProgramStateKept ==
    /\ device_connected = ev.connected
    /\ current_device = ev.device
    /\ led_state = ev.led

-----------------------------------------------------------------------------
(* Presence notifications.                                                 *)

\* a notification that finds the state it asks for changes nothing
RedundantNotification ==
    /\ (ev.op = "matching" /\ ev.connected) =>
          /\ Emitted = <<>>
          /\ device_connected
          /\ current_device = ev.device
    /\ (ev.op = "removal" /\ ~ev.connected) =>
          /\ Emitted = <<>>
          /\ Written = <<>>
          /\ ProgramStateKept

\* a matching notification right after one that found the bridge Disconnected
TwoMatchings ==
    (ev.op = "matching" /\ ev'.op = "matching" /\ events' = events + 1 /\ ~ev.connected)
       => Count(SubSeq(out', ev.nout + 1, Len(out')), CONNECTED_LINE) = 1

(* C1: presence notifications are idempotent.  A matching notification     *)
(* while Connected prints nothing and keeps the connected flag and the     *)
(* held handle; a removal notification while Disconnected prints nothing   *)
(* and changes no state; two matching notifications in a row that start    *)
(* from Disconnected print exactly one STATUS:device_connected.            *)
C1_PresenceIdempotent == []RedundantNotification /\ [][TwoMatchings]_vars

\* a second device was reported while the first was held, and nothing was printed
C1_Witness ==
    /\ ev.op = "matching"
    /\ ev.connected
    /\ ev.dev # ev.device
    /\ Emitted = <<>>
    /\ Count(out, CONNECTED_LINE) = 1

-----------------------------------------------------------------------------
(* C2: every Disconnected->Connected step prints exactly one               *)
(* STATUS:device_connected and every Connected->Disconnected step exactly  *)
(* one STATUS:device_disconnected, no other step prints a presence line,   *)
(* so the presence lines alternate, beginning with device_connected, and   *)
(* the last of them agrees with the connected flag.                        *)

C2_PresenceAlternates ==
    /\ \A i \in DOMAIN PresenceOut :
          PresenceOut[i] = IF i % 2 = 1 THEN CONNECTED_LINE ELSE DISCONNECTED_LINE
    /\ device_connected <=> (Len(PresenceOut) % 2 = 1)
    /\ SelectSeq(Emitted, IsPresenceLine) =
          IF ~ev.connected /\ device_connected THEN <<CONNECTED_LINE>>
          ELSE IF ev.connected /\ ~device_connected THEN <<DISCONNECTED_LINE>>
          ELSE <<>>

\* connected, disconnected and connected again
C2_Witness ==
    /\ PresenceOut = <<CONNECTED_LINE, DISCONNECTED_LINE, CONNECTED_LINE>>
    /\ device_connected
    /\ ev.op = "matching"

-----------------------------------------------------------------------------
(* C3: an LED command dispatched while Connected tries the methods in the  *)
(* order 1, 2, 3, 4 and stops at the first success: when the device        *)
(* rejects every method below k and accepts k, the reports sent are those  *)
(* of methods 1..k in this order, and the one confirmation printed is      *)
(* LED:state=<requested>,method=k, as the last line of the command.        *)

-----------------------------------------------------------------------------
(* C4: an LED command dispatched while Connected whose four methods all    *)
(* fail prints STATUS:led_failed=all_methods_failed, prints no LED:state=  *)
(* line, makes exactly the four attempts, leaves led_state as it was, and  *)
(* returns to the loop.                                                    *)

C4_AllMethodsFailed ==
    (LedCommand /\ WasConnected /\ ev.accepts = LED_METHODS + 1) =>
        /\ Emitted[Len(Emitted)] = "STATUS:led_failed=all_methods_failed"
        /\ Count(Emitted, "STATUS:led_failed=all_methods_failed") = 1
        /\ SelectSeq(Emitted, IsConfirmation) = <<>>
        /\ Len(Written) = LED_METHODS
        /\ \A j \in DOMAIN Written : Written[j].method = j
        /\ led_state = ev.led
        /\ pc = "slice"
        /\ exit_status = -1

\* LED:off after a confirmed LED:on, every method rejected: the LED state stays on
C4_Witness ==
    /\ LedCommand
    /\ WasConnected
    /\ ev.accepts = LED_METHODS + 1
    /\ ev.line = LINE_OFF
    /\ ev.led
    /\ led_state
    /\ Len(Written) = LED_METHODS

-----------------------------------------------------------------------------
(* C5, as claimed: LED:on (LED:off) dispatched while Disconnected prints   *)
(* STATUS:led_attempting=on (off) and then                                 *)
(* STATUS:led_failed=device_not_available, and no LED:state= line.         *)

C5_AttemptingThenUnavailable ==
    (LedCommand /\ ~WasConnected) =>
        /\ Emitted = << "STATUS:led_attempting=" \o Requested,
                        "STATUS:led_failed=device_not_available" >>
        /\ SelectSeq(Emitted, IsConfirmation) = <<>>

(* C5, amended: LED:on or LED:off dispatched while Disconnected prints     *)
(* the single line STATUS:led_failed=device_not_available: no              *)
(* STATUS:led_attempting line and no LED:state= line.                      *)

C5_UnavailableOnly ==
    (LedCommand /\ ~WasConnected) =>
        /\ Emitted = << "STATUS:led_failed=device_not_available" >>
        /\ Count(Emitted, "STATUS:led_attempting=" \o Requested) = 0
        /\ SelectSeq(Emitted, IsConfirmation) = <<>>

\* LED:on dispatched before any device was reported
C5_Witness ==
    /\ LedCommand
    /\ ev.line = LINE_ON
    /\ ~ev.connected
    /\ PresenceOut = <<>>
    /\ Emitted = << "STATUS:led_failed=device_not_available" >>

-----------------------------------------------------------------------------
(* C6: an LED command dispatched while Disconnected sends no report, keeps *)
(* led_state and returns to the loop; whenever a step sends reports, the   *)
(* device was Connected when it began and every report goes to the handle  *)
(* held then.                                                              *)

C6_NoWriteWhileDisconnected ==
    /\ (LedCommand /\ ~ev.connected) =>
          /\ Written = <<>>
          /\ led_state = ev.led
          /\ pc = "slice"
          /\ exit_status = -1
    /\ Written # <<>> =>
          /\ WasConnected
          /\ \A j \in DOMAIN Written : Written[j].device = ev.device

\* an LED command after the disconnect that followed a successful LED write
C6_Witness ==
    /\ LedCommand
    /\ ~ev.connected
    /\ writes # <<>>
    /\ Written = <<>>
    /\ ev.led
    /\ out[Len(out) - 1] = DISCONNECTED_LINE

-----------------------------------------------------------------------------
(* C7: a report is sent to the device, and led_state changes, only in a    *)
(* step that dispatched one entire inbound line (the text up to its        *)
(* newline) equal to LED:on or LED:off, whatever the other lines are.      *)

C7_OnlyExactLedLines ==
    (Written # <<>> \/ led_state # ev.led) =>
        /\ ev.op = "command"
        /\ ev.whole
        /\ ev.line \in {LINE_ON, LINE_OFF}

-----------------------------------------------------------------------------
\* the two diagnostics handle_stdin_command has for a line it does not know
UnknownDiagnostics(line) ==
    { <<"STATUS:unknown_command=" \o Str(line)>>,
      <<"STATUS:unknown_led_command=" \o Str(SubSeq(line, 5, Len(line)))>> }

(* C8: each inbound line other than LED:on and LED:off is rejected with    *)
(* exactly one diagnostic that echoes it: what is dispatched is always one *)
(* entire inbound line, and for a line other than LED:on and LED:off the   *)
(* step prints one unknown_command or unknown_led_command line, keeps      *)
(* presence, handle and LED state, sends nothing and returns to the loop.  *)

C8_UnknownLineRejectedOnce ==
    ev.op = "command" =>
        /\ ev.whole
        /\ ev.line \notin {LINE_ON, LINE_OFF} =>
              /\ Emitted \in UnknownDiagnostics(ev.line)
              /\ Written = <<>>
              /\ ProgramStateKept
              /\ pc = "slice"
              /\ exit_status = -1

-----------------------------------------------------------------------------
\* the fixed axis table: 48->x, 49->y, 50->z, 51->rx, 52->ry, 53->rz
AxisTable == [u \in 48..53 |->
                 CASE u = 48 -> "x" [] u = 49 -> "y" [] u = 50 -> "z"
                   [] u = 51 -> "rx" [] u = 52 -> "ry" [] u = 53 -> "rz"]

(* C9: an input report on usage page 1 prints exactly one line             *)
(* MOTION:<axis>=<value> with the axis of AxisTable and the report's value *)
(* when its usage is in 48..53, and nothing otherwise; (1, 48, 120) prints *)
(* MOTION:x=120; no report prints more than one line.                      *)

-----------------------------------------------------------------------------
(* C10: an input report on usage page 9 prints exactly one line            *)
(* BUTTON:id=<usage>,state=<s> with s pressed when the value is greater    *)
(* than 0 and released otherwise (zero and negative values included); a    *)
(* report on another page than 1 and 9 prints nothing and changes no       *)
(* state.                                                                  *)

C10_ButtonState ==
    ev.op = "input" =>
        /\ ev.report[1] = 9 =>
              Emitted = << "BUTTON:id=" \o ToString(ev.report[2]) \o ",state="
                             \o (IF ev.report[3] > 0 THEN "pressed" ELSE "released") >>
        /\ ev.report = <<9, 1, -1>> => Emitted = <<"BUTTON:id=1,state=released">>
        /\ ev.report = <<9, 2, 1>> => Emitted = <<"BUTTON:id=2,state=pressed">>
        /\ ev.report[1] \notin {1, 9} =>
              /\ Emitted = <<>>
              /\ Written = <<>>
              /\ ProgramStateKept
              /\ pc = "slice"

\* a button report with a negative value printed released
C10_Witness ==
    /\ ev.op = "input"
    /\ ev.report = <<9, 48, -1>>
    /\ Emitted = <<"BUTTON:id=48,state=released">>

-----------------------------------------------------------------------------
READY_LINE == "STATUS:ready"

(* C11: when the device subsystem cannot be created or opened the process  *)
(* exits with a non-zero status and STATUS:ready is never printed (nothing *)
(* is printed on standard output at all); otherwise STATUS:ready is        *)
(* printed exactly once and is the first line of the output, before any    *)
(* presence, motion, button or LED line.                                   *)

C11_ReadyFirstOrExit ==
    /\ pc = "init" => (out = <<>> /\ exit_status = -1)
    /\ pc = "exited" =>
          /\ exit_status # 0
          /\ exit_status # -1
          /\ Count(out, READY_LINE) = 0
          /\ out = <<>>
    /\ exit_status # -1 => pc = "exited"
    /\ pc \notin {"init", "exited"} =>
          /\ out[1] = READY_LINE
          /\ Count(out, READY_LINE) = 1
          /\ exit_status = -1

\* STATUS:ready, then a presence line, a motion line and an LED confirmation
C11_Witness ==
    /\ pc = "slice"
    /\ Len(out) >= 4
    /\ out[1] = READY_LINE
    /\ out[2] = CONNECTED_LINE
    /\ Count(out, "MOTION:x=120") = 1
    /\ SelectSeq(out, IsConfirmation) # <<>>
    /\ Count(out, READY_LINE) = 1

-----------------------------------------------------------------------------
(* C12: the loop never blocks waiting for inbound bytes: whatever the      *)
(* inbound stream holds (nothing, a complete line, or the beginning of a   *)
(* line without its newline), the stdin check completes with the bytes     *)
(* that have arrived and the loop goes on to the next slice; fgets is      *)
(* never left waiting in read(2).                                          *)

C12_StdinCheckNeverBlocks ==
    /\ pc # "fgets"
    /\ ev.op # "fgets_block"

-----------------------------------------------------------------------------
\* the text held by stdio or by the pipe contains a complete line
LinePending(bytes) == IndexOf(bytes, NL, 1) # 0

(* C13: a complete line that has been received and not yet dispatched when *)
(* a stdin check begins, a line read ahead into the stdio buffer together  *)
(* with an earlier one included, is dispatched by that check: no stdin     *)
(* check finds nothing to do while an entire inbound line (the buffered    *)
(* text begins at a line boundary) is waiting.                             *)

C13_PendingLineDispatched ==
    (ev.op = "select_empty" /\ ~midline) => ~LinePending(stdin_buf)

-----------------------------------------------------------------------------
(* C14: the held handle becomes invalid exactly when the device it refers  *)
(* to is removed: a removal notification for another device than the one   *)
(* held leaves the bridge Connected with the same handle and prints no     *)
(* STATUS:device_disconnected; the handle slot holds at most one device.   *)

C14_RemovalOfOtherDeviceIgnored ==
    /\ (ev.op = "removal" /\ ev.connected /\ ev.dev # ev.device) =>
          /\ device_connected
          /\ current_device = ev.device
          /\ Emitted = <<>>
    /\ current_device \in Devices \cup {NULL}

-----------------------------------------------------------------------------
PresenceOps == {"matching", "removal"}

\* two notifications in a row in one slice, the first of which printed a presence
\* line: the second prints none
SecondNotificationSilent ==
    (/\ ev.op \in PresenceOps
     /\ Emitted # <<>>
     /\ ev'.op \in PresenceOps
     /\ events' = events + 1)
       => Len(out') = ev'.nout

(* C17: within one device-servicing slice at most one presence transition  *)
(* occurs: between two consecutive stdin checks at most one of             *)
(* STATUS:device_connected and STATUS:device_disconnected is printed, also *)
(* when several matching and removal notifications are delivered in the    *)
(* slice; so a notification that follows, in the same slice, one that has  *)
(* printed a presence line prints none.                                    *)
C17_OneTransitionPerSlice == [][SecondNotificationSilent]_vars

-----------------------------------------------------------------------------
(* C18: the handle slot is occupied exactly when the connected flag is     *)
(* set (current_device is non-null iff device_connected); the slot is      *)
(* assigned only by the step that enters Connected, which stores the       *)
(* device reported, and cleared only by the step that enters Disconnected. *)

C18_HandleIffConnected ==
    /\ (current_device # NULL) <=> device_connected
    /\ current_device # ev.device =>
          \/ /\ ev.op = "matching"
             /\ ~ev.connected
             /\ device_connected
             /\ current_device = ev.dev
          \/ /\ ev.op = "removal"
             /\ ev.connected
             /\ ~device_connected
             /\ current_device = NULL
    /\ device_connected # ev.connected => current_device # ev.device

\* the second device was matched and held after the first was removed, then removed
C18_Witness ==
    /\ ev.op = "removal"
    /\ ev.connected
    /\ ev.device = 2
    /\ current_device = NULL
    /\ ~device_connected
    /\ PresenceOut = <<CONNECTED_LINE, DISCONNECTED_LINE, CONNECTED_LINE, DISCONNECTED_LINE>>

-----------------------------------------------------------------------------
\* the last step was an LED command that the device accepted with some method
SuccessfulLedWrite ==
    /\ LedCommand
    /\ WasConnected
    /\ ev.accepts \in 1..LED_METHODS
    /\ Written # <<>>

(* C15: led_state is changed only by a successful LED write.  It is off at *)
(* the start; a step that changes it is an LED command dispatched while    *)
(* Connected that the device accepted, and it becomes the state asked for; *)
(* matching and removal notifications, input reports, unknown command      *)
(* lines and LED commands that fail (device_not_available or               *)
(* all_methods_failed) keep it, so a disconnect followed by a reconnect    *)
(* does not reset it.                                                      *)

C15_LedStateOnlyBySuccess ==
    /\ pc = "init" => ~led_state
    /\ led_state # ev.led =>
          /\ SuccessfulLedWrite
          /\ led_state = (ev.line = LINE_ON)
    /\ ev.op \in {"matching", "removal", "input"} => led_state = ev.led
    /\ (ev.op = "command" /\ ~LedCommand) => led_state = ev.led
    /\ (LedCommand /\ ~WasConnected) => led_state = ev.led
    /\ (LedCommand /\ ev.accepts = LED_METHODS + 1) => led_state = ev.led

\* the LED was switched on, the device was removed and reported again: still on
C15_Witness ==
    /\ ev.op = "matching"
    /\ ~ev.connected
    /\ ev.led
    /\ led_state
    /\ PresenceOut = <<CONNECTED_LINE, DISCONNECTED_LINE, CONNECTED_LINE>>

-----------------------------------------------------------------------------
\* the diagnostics try_led_method can print for the given method
LedMethodLines(method) ==
    { "STATUS:led_method=" \o ToString(method) \o ",result=" \o Hex8(r) : r \in IOReturns }

(* C16: the LED probe keeps no memory between commands: every LED command  *)
(* dispatched while Connected begins with method 1, whichever method       *)
(* succeeded or failed in an earlier command; after a command confirmed    *)
(* with method=k, k > 1, the next command again tries method 1 first.      *)

C16_ProbeStartsAtMethodOne ==
    (LedCommand /\ WasConnected) =>
        /\ Written # <<>>
        /\ Written[1].method = 1
        /\ Len(Emitted) >= 2
        /\ Emitted[1] = "STATUS:led_attempting=" \o Requested
        /\ Emitted[2] \in LedMethodLines(1)

\* the command before was confirmed with a method above 1; this one began at method 1
C16_Witness ==
    /\ LedCommand
    /\ WasConnected
    /\ ev.nwrites >= 2
    /\ writes[ev.nwrites].method > 1
    /\ out[ev.nout] \in Confirmations
    /\ out[ev.nout] = "LED:state=on,method=" \o ToString(writes[ev.nwrites].method)
    /\ Written[1].method = 1

-----------------------------------------------------------------------------
States == {"on", "off"}
ALL_FAILED_LINE == "STATUS:led_failed=all_methods_failed"
AnyLedMethodLine == UNION { LedMethodLines(m) : m \in 1..LED_METHODS }
ConfirmationsOf(s) == { "LED:state=" \o s \o ",method=" \o ToString(m) : m \in 0..9 }

\* the lines from i + 1 to j - 1 of the output are diagnostics of try_led_method
OnlyMethodLinesBetween(i, j) ==
    \A k \in (i + 1)..(j - 1) : out[k] \in AnyLedMethodLine

(* C19: every LED:state=<s>,method=<k> line is preceded, within the same   *)
(* command, by STATUS:led_attempting=<s> with the same s; every            *)
(* STATUS:led_attempting line is followed by exactly one terminal outcome  *)
(* of that command (an LED:state= line or                                  *)
(* STATUS:led_failed=all_methods_failed); between the two there are only   *)
(* the led_method diagnostics of that command: no presence, motion or      *)
(* button line and no output of another command.                           *)

C19_AttemptThenOutcome ==
    /\ \A i \in DOMAIN out : \A s \in States :
          out[i] = "STATUS:led_attempting=" \o s =>
             \E j \in (i + 1)..Len(out) :
                /\ out[j] \in ConfirmationsOf(s) \cup {ALL_FAILED_LINE}
                /\ OnlyMethodLinesBetween(i, j)
    /\ \A j \in DOMAIN out : \A s \in States :
          out[j] \in ConfirmationsOf(s) =>
             \E i \in 1..(j - 1) :
                /\ out[i] = "STATUS:led_attempting=" \o s
                /\ OnlyMethodLinesBetween(i, j)
    /\ \A j \in DOMAIN out :
          out[j] = ALL_FAILED_LINE =>
             \E i \in 1..(j - 1) :
                /\ out[i] \in { "STATUS:led_attempting=" \o s : s \in States }
                /\ OnlyMethodLinesBetween(i, j)

\* LED:off confirmed by method 2 between a presence line and a motion line
C19_Witness ==
    /\ Len(out) >= 7
    /\ out[2] = CONNECTED_LINE
    /\ out[3] = "STATUS:led_attempting=off"
    /\ out[4] = "STATUS:led_method=1,result=0xe00002bc"
    /\ out[5] = "STATUS:led_method=2,result=0x00000000"
    /\ out[6] = "LED:state=off,method=2"
    /\ out[7] = "MOTION:x=120"

-----------------------------------------------------------------------------
\* the LED:state= lines of the output, in order
ConfirmationsOut == SelectSeq(out, IsConfirmation)
ValidConfirmations(s) ==
    { "LED:state=" \o s \o ",method=" \o ToString(m) : m \in 1..LED_METHODS }

(* C20: after any sequence of commands and device events led_state is the  *)
(* state named in the last LED:state= line printed, or off when none has   *)
(* been printed, and every LED:state= line carries a method index in 1..4. *)

=============================================================================
